---- MODULE Spec2Model ----
(***************************************************************************)
(* Model of marker (crawford/marker): the run of main() in src/main.rs     *)
(* over a tree of markdown documents.  The directory walk, the markdown    *)
(* tokenizer, the URL parser, the file system and the HTTP client are      *)
(* collaborators: their answers are inputs drawn from small sets.          *)
(*                                                                         *)
(* Strings that the code takes apart (link targets, text tokens, paths)    *)
(* are sequences of lexical pieces, so that splitting at '#', looking at   *)
(* the first and last character and joining paths are computed.            *)
(***************************************************************************)
EXTENDS Integers, Sequences, FiniteSets, TLC

VARIABLES
    pc,          \* position of main(): "walk" (for loop head), "scan" (while loop), "exited"
    exit_code,   \* <<code>> once the process has exited, <<>> while it runs
    skip_http,   \* --skip-http
    walked,      \* the directory entries the walk has yielded so far
    emitted,     \* number of tokenizer events of the run so far
    entry,       \* the directory entry main() is at: [kind, path]
    parser,      \* the tokenizer of the current document: [len, pos, newlines, in_code]
    state,       \* struct State: [skip_http, code_block, last_text, directory]
    links,       \* HashMap<Url, StatusCode> of main(), a function on the cached urls
    found_issue, \* the flag print_issue! sets
    stdout,      \* the lines printed by print_issue!, in order
    requests,    \* every HTTP request sent, in order: [method, url, resp]
    processed,   \* every End(Link) event handled, in order, with what check_link did
    budget,      \* tokenizer events the run may hold at most
    source,      \* the text given to Document::new: [tokens, newlines]
    document,    \* struct Document: [pos, code_block, last_text]
    returned     \* what the calls of Document::next returned, in order

\* the variables of a Document and of its caller
scanner == <<source, document, returned>>

vars == <<pc, exit_code, skip_http, walked, emitted, entry, parser, state, links,
          found_issue, stdout, requests, processed, budget, scanner>>

----------------------------------------------------------------------------
(* Bounds of the model.                                                    *)

\* directory entries one walk yields at most
MaxEntries == 2
\* tokenizer events of one run at most (over all documents)
MaxEvents == 2
\* tokenizer events of the text given to a Document at most
MaxTokens == 3

----------------------------------------------------------------------------
(* Program constants.                                                      *)

\* StatusCode::Ok
StatusOk == 200
\* StatusCode::MethodNotAllowed
MethodNotAllowed == 405
\* exit(2) of fail!
ExitFatal == 2
\* exit(1) at the end of main
ExitIssue == 1
\* main returns
ExitClean == 0

----------------------------------------------------------------------------
(* Inputs.                                                                 *)

\* --root
Root == <<"docs">>

\* what exists in the file system under the root
Exists ==
    { <<"docs">>, <<"docs", "sub">>, <<"docs", "a.md">>, <<"docs", "sub", "b.md">>,
      <<"docs", "img.png">> }

\* the .md files the walk can yield
MdFiles == { <<"docs", "a.md">>, <<"docs", "sub", "b.md">> }
\* the other entries the walk can yield
OtherFiles == { <<"docs", "img.png">> }

\* link destinations the tokenizer can report, as lexical pieces
Dests ==
    { <<"http", ":", "//", "x", "/a", "#", "1">>,
      <<"http", ":", "//", "x", "/a", "#", "2">>,
      <<"mailto", ":", "m">>,
      <<"a.md">>,
      <<"a.md", "#", "s">>,
      <<"/", "a.md">>,
      <<"http", ":", "//">> }

\* text tokens the tokenizer can report, as characters
Texts == { <<"t">>, <<"[", "r", "]">> }

\* contents.match_indices('\n'): the positions of '\n' in a file's contents
NewlinesOf(path) == IF path = <<"docs", "a.md">> THEN <<1>> ELSE <<0, 1>>

\* what one HTTP request can come back with
Responses ==
    { [ok |-> TRUE, status |-> s] : s \in {StatusOk, 404, MethodNotAllowed} }
        \cup { [ok |-> FALSE, status |-> 0] }


----------------------------------------------------------------------------
(* Helpers on sequences.                                                   *)

\* str.split('#').next(): the pieces before the first '#'
RECURSIVE BeforeHash(_)
BeforeHash(s) ==
    IF s = <<>> \/ Head(s) = "#" THEN <<>> ELSE <<Head(s)>> \o BeforeHash(Tail(s))

\* the pieces from the first '#' on
RECURSIVE FromHash(_)
FromHash(s) ==
    IF s = <<>> \/ Head(s) = "#" THEN s ELSE FromHash(Tail(s))

\* iter().take_while(|i| i < offset).count()
RECURSIVE TakeWhileLess(_, _)
TakeWhileLess(s, offset) ==
    IF s = <<>> \/ ~(Head(s) < offset) THEN 0 ELSE 1 + TakeWhileLess(Tail(s), offset)

\* main.rs line 118
LineOf(newlines, offset) == TakeWhileLess(newlines, offset) + 1

----------------------------------------------------------------------------
(* The url crate, as far as main.rs relies on it.                          *)

SpecialSchemes == {"http", "https"}
SchemeNames == SpecialSchemes \cup {"mailto"}

\* Url::parse: Ok(url) for an absolute URL, Err(RelativeUrlWithoutBase) for a
\* string with no scheme, Err(EmptyHost) for a special scheme with no host.
\* A Url is [scheme, body, fragment]; fragment holds the pieces from '#' on.
UrlParse(dest) ==
    IF Len(dest) >= 2 /\ dest[1] \in SchemeNames /\ dest[2] = ":"
    THEN LET rest == SubSeq(dest, 3, Len(dest))
             body == BeforeHash(rest)
         IN  IF dest[1] \in SpecialSchemes
                  /\ ~(Len(body) >= 2 /\ body[1] = "//")
             THEN [ok |-> FALSE, err |-> "EmptyHost"]
             ELSE [ok |-> TRUE,
                   url |-> [scheme |-> dest[1], body |-> body,
                            fragment |-> FromHash(rest)]]
    ELSE [ok |-> FALSE, err |-> "RelativeUrlWithoutBase"]

\* the urls the run can meet
Urls == { UrlParse(d).url : d \in { e \in Dests : UrlParse(e).ok } }

----------------------------------------------------------------------------
(* std::path, as far as main.rs relies on it.                              *)

\* Path::is_absolute
IsAbsolute(path) == path # <<>> /\ Head(path) = "/"

\* the components of a path: its pieces without the separators
RECURSIVE Components(_)
Components(path) ==
    IF path = <<>> THEN <<>>
    ELSE IF Head(path) = "/" THEN Components(Tail(path))
    ELSE <<Head(path)>> \o Components(Tail(path))

\* Path::join of a directory and a relative path
Join(directory, path) == directory \o Components(path)

\* Path::exists
PathExists(p) == p \in Exists

\* Path::parent of a file path
Parent(p) == SubSeq(p, 1, Len(p) - 1)

----------------------------------------------------------------------------
(* Results of the checks: Ok(()) or Err(LinkError).                        *)

\* status is the code of HttpStatus (0 otherwise), err the ParseError of
\* UrlMalformed ("" otherwise).
Ok == [kind |-> "Ok", status |-> 0, err |-> ""]
PathAbsolute == [kind |-> "PathAbsolute", status |-> 0, err |-> ""]
PathNonExistant == [kind |-> "PathNonExistant", status |-> 0, err |-> ""]
HttpStatus(status) == [kind |-> "HttpStatus", status |-> status, err |-> ""]
HttpError == [kind |-> "HttpError", status |-> 0, err |-> ""]
UrlMalformed(err) == [kind |-> "UrlMalformed", status |-> 0, err |-> err]

\* a check_path that resolves against the root instead of the document's directory
check_path_FromRoot(st, path) ==
    LET p == BeforeHash(path)
    IN  IF IsAbsolute(p) THEN PathAbsolute
        ELSE IF ~PathExists(Join(Root, p)) THEN PathNonExistant
        ELSE Ok

\* fn check_path
check_path(st, path) ==
    LET p == BeforeHash(path)
    IN  IF IsAbsolute(p) THEN PathAbsolute
        ELSE IF ~PathExists(Join(st.directory, p)) THEN PathNonExistant
        ELSE Ok

\* links.remove(&url)
MapRemove(m, k) == [u \in (DOMAIN m) \ {k} |-> m[u]]
\* links.insert(url, status)
MapInsert(m, k, v) == [u \in (DOMAIN m) \cup {k} |-> IF u = k THEN v ELSE m[u]]

\* a client that falls back to GET on every status other than 200
HeadThenGet_AnyFailure(url, head, get) ==
    IF head.ok /\ head.status # StatusOk
    THEN [res |-> get,
          sent |-> << [method |-> "HEAD", url |-> url, resp |-> head],
                      [method |-> "GET", url |-> url, resp |-> get] >>]
    ELSE [res |-> head,
          sent |-> << [method |-> "HEAD", url |-> url, resp |-> head] >>]

\* client.head(url).send().and_then(|resp| if 405 { client.get(url).send() } else { Ok(resp) })
\* head and get are what the server answers to a HEAD and to a GET;
\* the value is [res, sent]: the final response and the requests sent.
HeadThenGet(url, head, get) ==
    IF head.ok /\ head.status = MethodNotAllowed
    THEN [res |-> get,
          sent |-> << [method |-> "HEAD", url |-> url, resp |-> head],
                      [method |-> "GET", url |-> url, resp |-> get] >>]
    ELSE [res |-> head,
          sent |-> << [method |-> "HEAD", url |-> url, resp |-> head] >>]

\* match status { StatusCode::Ok => Ok(()), status => Err(HttpStatus(status)) }
StatusResult(status) == IF status = StatusOk THEN Ok ELSE HttpStatus(status)

\* a check_url without the test of the scheme
check_url_AnyScheme(lnk, url, head, get) ==
    IF url \in DOMAIN lnk
    THEN [result |-> StatusResult(lnk[url]),
          links |-> MapInsert(MapRemove(lnk, url), url, lnk[url]),
          sent |-> <<>>]
    ELSE LET net == HeadThenGet(url, head, get)
         IN  IF net.res.ok
             THEN [result |-> StatusResult(net.res.status),
                   links |-> MapInsert(lnk, url, net.res.status),
                   sent |-> net.sent]
             ELSE [result |-> HttpError, links |-> lnk, sent |-> net.sent]

\* a check_url that takes a cached status out of the map and does not put it back
check_url_Take(lnk, url, head, get) ==
    IF url.scheme # "http" /\ url.scheme # "https"
    THEN [result |-> Ok, links |-> lnk, sent |-> <<>>]
    ELSE IF url \in DOMAIN lnk
    THEN [result |-> StatusResult(lnk[url]), links |-> MapRemove(lnk, url),
          sent |-> <<>>]
    ELSE LET net == HeadThenGet(url, head, get)
         IN  IF net.res.ok
             THEN [result |-> StatusResult(net.res.status),
                   links |-> MapInsert(lnk, url, net.res.status),
                   sent |-> net.sent]
             ELSE [result |-> HttpError, links |-> lnk, sent |-> net.sent]

\* fn check_url: the value is [result, links, sent]
check_url(lnk, url, head, get) ==
    IF url.scheme # "http" /\ url.scheme # "https"
    THEN [result |-> Ok, links |-> lnk, sent |-> <<>>]
    ELSE IF url \in DOMAIN lnk
    THEN [result |-> StatusResult(lnk[url]),
          links |-> MapInsert(MapRemove(lnk, url), url, lnk[url]),
          sent |-> <<>>]
    ELSE LET net == HeadThenGet(url, head, get)
         IN  IF net.res.ok
             THEN [result |-> StatusResult(net.res.status),
                   links |-> MapInsert(lnk, url, net.res.status),
                   sent |-> net.sent]
             ELSE [result |-> HttpError, links |-> lnk, sent |-> net.sent]

\* a check_link that sends every parse failure to the path check
check_link_AnyErrorIsPath(st, lnk, dest, head, get) ==
    LET parsed == UrlParse(dest)
    IN  IF parsed.ok /\ ~st.skip_http
        THEN LET r == check_url(lnk, parsed.url, head, get)
             IN  [result |-> r.result, links |-> r.links, sent |-> r.sent,
                  route |-> "check_url"]
        ELSE IF parsed.ok
        THEN [result |-> Ok, links |-> lnk, sent |-> <<>>, route |-> "skip"]
        ELSE [result |-> check_path(st, dest), links |-> lnk, sent |-> <<>>,
              route |-> "check_path"]

\* fn check_link: the value is [result, links, sent, route]; route names the
\* arm of the match that was taken
check_link(st, lnk, dest, head, get) ==
    LET parsed == UrlParse(dest)
    IN  IF parsed.ok /\ ~st.skip_http
        THEN LET r == check_url(lnk, parsed.url, head, get)
             IN  [result |-> r.result, links |-> r.links, sent |-> r.sent,
                  route |-> "check_url"]
        ELSE IF parsed.ok
        THEN [result |-> Ok, links |-> lnk, sent |-> <<>>, route |-> "skip"]
        ELSE IF parsed.err = "RelativeUrlWithoutBase"
        THEN [result |-> check_path(st, dest), links |-> lnk, sent |-> <<>>,
              route |-> "check_path"]
        ELSE [result |-> UrlMalformed(parsed.err), links |-> lnk, sent |-> <<>>,
              route |-> "malformed"]

\* a try_reference that does not look at the code flag
try_reference_NoCodeTest(st, text) ==
    IF text # <<>> /\ Head(text) = "[" /\ text[Len(text)] = "]"
    THEN << SubSeq(text, 2, Len(text) - 1) >>
    ELSE <<>>

\* fn try_reference: <<label>> for Some(label), <<>> for None
try_reference(st, text) ==
    IF ~st.code_block /\ text # <<>> /\ Head(text) = "[" /\ text[Len(text)] = "]"
    THEN << SubSeq(text, 2, Len(text) - 1) >>
    ELSE <<>>

----------------------------------------------------------------------------
(* main().                                                                 *)

\* a fail! that prints and lets main() go on with the walk
fail_Continue == [pc |-> "walk", exit_code |-> <<>>]

\* macro fail!: the process exits with code 2
fail == [pc |-> "exited", exit_code |-> <<ExitFatal>>]

\* a print_issue! that prints and leaves the flag alone
print_issue_NoFlag(flag, out, line) ==
    [flag |-> flag, out |-> Append(out, line), pc |-> "scan", exit_code |-> <<>>]

\* a print_issue! that exits like fail! does
print_issue_Exit(flag, out, line) ==
    [flag |-> TRUE, out |-> Append(out, line), pc |-> "exited",
     exit_code |-> <<ExitIssue>>]

\* macro print_issue!: the line is printed and the flag is set; unlike fail!
\* it does not exit, so main() stays in its while loop
print_issue(flag, out, line) ==
    [flag |-> TRUE, out |-> Append(out, line), pc |-> "scan", exit_code |-> <<>>]

\* the title of the line main() prints for an Err(LinkError)
Title(kind) ==
    CASE kind = "PathAbsolute" -> "Found absolute path"
      [] kind = "PathNonExistant" -> "Found broken path"
      [] kind = "HttpStatus" -> "Found broken url"
      [] kind = "HttpError" -> "HTTP failure"
      [] kind = "UrlMalformed" -> "Found malformed URL"

\* the line printed for a link error
LinkLine(st, dest, path, line, result) ==
    [title |-> Title(result.kind), text |-> st.last_text, dest |-> dest,
     file |-> path, line |-> line, status |-> result.status, err |-> result.err]

\* the line printed for a broken reference
ReferenceLine(reference, path, line) ==
    [title |-> "Found broken reference", text |-> reference, dest |-> <<>>,
     file |-> path, line |-> line, status |-> 0, err |-> ""]

\* no Document is in use in a run of main()
NoSource == [tokens |-> <<>>, newlines |-> <<>>]
NoDocument == [pos |-> 0, code_block |-> FALSE, last_text |-> <<>>]

NoEntry == [kind |-> "none", path |-> <<>>]
NoParser == [len |-> 0, pos |-> 0, newlines |-> <<>>, in_code |-> FALSE]
NoState == [skip_http |-> FALSE, code_block |-> FALSE, last_text |-> <<>>,
            directory |-> <<>>]

Init ==
    /\ pc = "walk"
    /\ exit_code = <<>>
    /\ skip_http \in BOOLEAN
    /\ walked = {}
    /\ emitted = 0
    /\ entry = NoEntry
    /\ parser = NoParser
    /\ state = NoState
    /\ links = << >>
    /\ found_issue = FALSE
    /\ stdout = <<>>
    /\ requests = <<>>
    /\ processed = <<>>
    /\ budget = MaxEvents
    /\ source = NoSource
    /\ document = NoDocument
    /\ returned = <<>>

\* the walk has another entry to yield
WalkHasNext == pc = "walk" /\ Cardinality(walked) < MaxEntries

\* WalkDir yields an error: fail!("Failed to walk directory")
WalkFail ==
    /\ WalkHasNext
    /\ entry' = [kind |-> "walk_err", path |-> <<>>]
    /\ pc' = fail.pc
    /\ exit_code' = fail.exit_code
    /\ UNCHANGED <<skip_http, walked, emitted, parser, state, links, found_issue,
                   stdout, requests, processed>>
    /\ UNCHANGED <<budget, scanner>>

\* the entry is no file with extension md: filter_map drops it
WalkSkip ==
    /\ WalkHasNext
    /\ \E path \in OtherFiles \ walked :
          /\ entry' = [kind |-> "other", path |-> path]
          /\ walked' = walked \cup {path}
    /\ UNCHANGED <<pc, exit_code, skip_http, emitted, parser, state, links,
                   found_issue, stdout, requests, processed>>
    /\ UNCHANGED <<budget, scanner>>

\* File::open fails: fail!("Failed to open file")
OpenFail ==
    /\ WalkHasNext
    /\ \E path \in MdFiles \ walked :
          /\ entry' = [kind |-> "open_err", path |-> path]
          /\ walked' = walked \cup {path}
    /\ pc' = fail.pc
    /\ exit_code' = fail.exit_code
    /\ UNCHANGED <<skip_http, emitted, parser, state, links, found_issue,
                   stdout, requests, processed>>
    /\ UNCHANGED <<budget, scanner>>

\* read_to_string fails: fail!("Failed to read file")
ReadFail ==
    /\ WalkHasNext
    /\ \E path \in MdFiles \ walked :
          /\ entry' = [kind |-> "read_err", path |-> path]
          /\ walked' = walked \cup {path}
    /\ pc' = fail.pc
    /\ exit_code' = fail.exit_code
    /\ UNCHANGED <<skip_http, emitted, parser, state, links, found_issue,
                   stdout, requests, processed>>
    /\ UNCHANGED <<budget, scanner>>

\* the file is read; newlines, State and Parser are set up for it
OpenDocument ==
    /\ WalkHasNext
    /\ \E path \in MdFiles \ walked, len \in 0..(budget - emitted) :
          /\ entry' = [kind |-> "md", path |-> path]
          /\ walked' = walked \cup {path}
          /\ parser' = [len |-> len, pos |-> 0, newlines |-> NewlinesOf(path), in_code |-> FALSE]
          /\ state' = [skip_http |-> skip_http, code_block |-> FALSE,
                       last_text |-> <<>>, directory |-> Parent(path)]
    /\ pc' = "scan"
    /\ UNCHANGED <<exit_code, skip_http, emitted, links, found_issue, stdout,
                   requests, processed>>
    /\ UNCHANGED <<budget, scanner>>

\* parser.next() has an event left; room is the number of events that must
\* still fit behind it (the end of an open code span)
ParserHasNext(room) == pc = "scan" /\ parser.pos + room < parser.len

\* the tokenizer moves on by one event
Advance ==
    /\ parser' = [parser EXCEPT !.pos = @ + 1]
    /\ emitted' = emitted + 1

\* parser.get_offset() after the event, and the line main() computes from it
OffsetAfter == parser.pos + 1
CurrentLine == LineOf(parser.newlines, OffsetAfter)

\* Event::Text
ParserText ==
    /\ ParserHasNext(IF parser.in_code THEN 1 ELSE 0)
    /\ Advance
    /\ \E text \in Texts :
          LET st == [state EXCEPT !.last_text = text]
              reference == try_reference(st, text)
              printed == print_issue(found_issue, stdout,
                             ReferenceLine(reference[1], entry.path, CurrentLine))
          IN  /\ state' = st
              /\ found_issue' = IF reference # <<>> THEN printed.flag ELSE found_issue
              /\ stdout' = IF reference # <<>> THEN printed.out ELSE stdout
              /\ pc' = IF reference # <<>> THEN printed.pc ELSE pc
              /\ exit_code' = IF reference # <<>> THEN printed.exit_code ELSE exit_code
    /\ UNCHANGED <<skip_http, walked, entry, links, requests, processed>>
    /\ UNCHANGED <<budget, scanner>>

\* Event::End(Tag::Link(dest, _))
ParserEndLink ==
    /\ ParserHasNext(0)
    /\ ~parser.in_code
    /\ Advance
    /\ \E dest \in Dests, head \in Responses, get \in Responses :
          LET r == check_link(state, links, dest, head, get)
              printed == print_issue(found_issue, stdout,
                             LinkLine(state, dest, entry.path, CurrentLine, r.result))
          IN  /\ links' = r.links
              /\ requests' = requests \o r.sent
              /\ processed' = Append(processed,
                     [file |-> entry.path, offset |-> OffsetAfter,
                      newlines |-> parser.newlines, dest |-> dest,
                      text |-> state.last_text, directory |-> state.directory,
                      route |-> r.route, result |-> r.result, sent |-> r.sent])
              /\ found_issue' = IF r.result # Ok THEN printed.flag ELSE found_issue
              /\ stdout' = IF r.result # Ok THEN printed.out ELSE stdout
              /\ pc' = IF r.result # Ok THEN printed.pc ELSE pc
              /\ exit_code' = IF r.result # Ok THEN printed.exit_code ELSE exit_code
    /\ UNCHANGED <<skip_http, walked, entry, state>>
    /\ UNCHANGED <<budget, scanner>>

\* Event::Start(Tag::Code) | Event::Start(Tag::CodeBlock(_))
ParserStartCode ==
    /\ ParserHasNext(1)
    /\ ~parser.in_code
    /\ parser' = [parser EXCEPT !.pos = @ + 1, !.in_code = TRUE]
    /\ emitted' = emitted + 1
    /\ state' = [state EXCEPT !.code_block = TRUE]
    /\ UNCHANGED <<pc, exit_code, skip_http, walked, entry, links, found_issue,
                   stdout, requests, processed>>
    /\ UNCHANGED <<budget, scanner>>

\* Event::End(Tag::Code) | Event::End(Tag::CodeBlock(_))
ParserEndCode ==
    /\ ParserHasNext(0)
    /\ parser.in_code
    /\ parser' = [parser EXCEPT !.pos = @ + 1, !.in_code = FALSE]
    /\ emitted' = emitted + 1
    /\ state' = [state EXCEPT !.code_block = FALSE]
    /\ UNCHANGED <<pc, exit_code, skip_http, walked, entry, links, found_issue,
                   stdout, requests, processed>>
    /\ UNCHANGED <<budget, scanner>>

\* any other event: _ => {}
ParserOther ==
    /\ ParserHasNext(IF parser.in_code THEN 1 ELSE 0)
    /\ Advance
    /\ UNCHANGED <<pc, exit_code, skip_http, walked, entry, state, links,
                   found_issue, stdout, requests, processed>>
    /\ UNCHANGED <<budget, scanner>>

\* parser.next() is None: the while loop ends, the for loop goes on
ParserEnd ==
    /\ pc = "scan"
    /\ parser.pos = parser.len
    /\ pc' = "walk"
    /\ UNCHANGED <<exit_code, skip_http, walked, emitted, entry, parser, state,
                   links, found_issue, stdout, requests, processed>>
    /\ UNCHANGED <<budget, scanner>>

\* the exit code at the end of main: exit(1) if found_issue
FinalCode(flag) == IF flag THEN ExitIssue ELSE ExitClean

\* the walk is exhausted: main ends
Finish ==
    /\ pc = "walk"
    /\ pc' = "exited"
    /\ exit_code' = << FinalCode(found_issue) >>
    /\ UNCHANGED <<skip_http, walked, emitted, entry, parser, state, links,
                   found_issue, stdout, requests, processed>>
    /\ UNCHANGED <<budget, scanner>>

Next ==
    \/ WalkFail
    \/ WalkSkip
    \/ OpenFail
    \/ ReadFail
    \/ OpenDocument
    \/ ParserText
    \/ ParserEndLink
    \/ ParserStartCode
    \/ ParserEndCode
    \/ ParserOther
    \/ ParserEnd
    \/ Finish

Spec == Init /\ [][Next]_vars

\* main() runs to its end: every step of the loops is eventually taken
FairSpec == Spec /\ WF_vars(Next)

\* a run with --skip-http over documents long enough to hold a text between
\* the start and the end of a code region
ScanBudget == MaxEvents + 1
ScanInit ==
    /\ pc = "walk"
    /\ exit_code = <<>>
    /\ skip_http = TRUE
    /\ walked = {}
    /\ emitted = 0
    /\ entry = NoEntry
    /\ parser = NoParser
    /\ state = NoState
    /\ links = << >>
    /\ found_issue = FALSE
    /\ stdout = <<>>
    /\ requests = <<>>
    /\ processed = <<>>
    /\ budget = ScanBudget
    /\ source = NoSource
    /\ document = NoDocument
    /\ returned = <<>>

ScanSpec == ScanInit /\ [][Next]_vars

----------------------------------------------------------------------------
(* struct Document of src/document.rs: the scanner over one text.          *)

\* LinkType of the tokenizer, as Document::next tells the kinds apart
ResolvedTypes == {"Inline", "Reference", "Collapsed", "Shortcut"}
UnknownTypes == {"ReferenceUnknown", "CollapsedUnknown", "ShortcutUnknown"}
OtherTypes == {"Autolink", "Email"}

\* a callback that gives the label as the url
BrokenLinkCallback_LabelAsUrl(label) == [target |-> label, title |-> <<>>]

\* the broken link callback of Document::new: (url, title) = ("", label)
BrokenLinkCallback(label) == [target |-> <<>>, title |-> label]

\* events of the tokenizer: text holds the text of a Text event and the
\* title of an End(Tag::Link(link_type, target, title)) event
TextEvent(text) ==
    [kind |-> "Text", link_type |-> "", target |-> <<>>, text |-> text]
EndLinkEvent(link_type, target, title) ==
    [kind |-> "EndLink", link_type |-> link_type, target |-> target, text |-> title]
PlainEvent(kind) ==
    [kind |-> kind, link_type |-> "", target |-> <<>>, text |-> <<>>]

\* the text tokens of a document
DocTexts == { <<"t">>, <<"u">> }
\* the label of the references without a definition
DocLabel == <<"r">>

\* the events the tokenizer can yield
DocEvents ==
    { TextEvent(t) : t \in DocTexts }
        \cup { PlainEvent(k) :
                 k \in {"Code", "TaskListMarker", "StartCodeBlock", "EndCodeBlock"} }
        \cup { EndLinkEvent(ty, <<"x">>, <<>>) : ty \in ResolvedTypes \cup OtherTypes }
        \cup { EndLinkEvent(ty, BrokenLinkCallback(DocLabel).target,
                            BrokenLinkCallback(DocLabel).title) : ty \in UnknownTypes }

\* a sequence of events the tokenizer can yield for a text: code blocks are
\* closed and hold text only
RECURSIVE WellFormed(_, _)
WellFormed(tokens, in_code) ==
    IF tokens = <<>> THEN ~in_code
    ELSE LET tok == Head(tokens)
         IN  CASE tok.kind = "StartCodeBlock" -> ~in_code /\ WellFormed(Tail(tokens), TRUE)
               [] tok.kind = "EndCodeBlock" -> in_code /\ WellFormed(Tail(tokens), FALSE)
               [] tok.kind = "Text" -> WellFormed(Tail(tokens), in_code)
               [] OTHER -> ~in_code /\ WellFormed(Tail(tokens), FALSE)

\* positions of '\n' in the text, as match_indices yields them
DocNewlines == { <<1>>, <<0, 1>> }

\* the texts a Document can be made of
Sources ==
    { [tokens |-> t, newlines |-> nl] :
        t \in { q \in UNION { [1..n -> DocEvents] : n \in 0..MaxTokens } :
                  WellFormed(q, FALSE) },
        nl \in DocNewlines }

\* the start of the span the tokenizer gives with its n-th event
SpanStart(n) == n - 1

\* Document::new
Document_new == [pos |-> 0, code_block |-> FALSE, last_text |-> <<>>]

\* values of Event and of Option<LocatedEvent>; Continue stands for a match
\* arm that does not return, Panic for a failed expect
LinkEvent(target, text) == [kind |-> "Link", target |-> target, text |-> text, line |-> 0]
ReferenceBroken(target, text) ==
    [kind |-> "ReferenceBroken", target |-> target, text |-> text, line |-> 0]
None == [kind |-> "None", target |-> <<>>, text |-> <<>>, line |-> 0]
Continue == [kind |-> "Continue", target |-> <<>>, text |-> <<>>, line |-> 0]
Panic == [kind |-> "Panic", target |-> <<>>, text |-> <<>>, line |-> 0]

\* a new_located_event that counts the newlines and forgets the + 1
new_located_event_NoPlusOne(newlines, event, span_start) ==
    [event EXCEPT !.line = TakeWhileLess(newlines, span_start)]

\* fn new_located_event
new_located_event(newlines, event, span_start) ==
    [event EXCEPT !.line = TakeWhileLess(newlines, span_start) + 1]

\* self.last_text.clone().expect("some last text") in an Event::Link
LinkWithLastText(newlines, target, last_text, span_start) ==
    IF last_text = <<>> THEN Panic
    ELSE new_located_event(newlines, LinkEvent(target, last_text[1]), span_start)

\* a match that treats every kind of link it does not name as a resolved link
MatchEvent_AnyLinkIsLink(self, newlines, tok, span_start) ==
    LET stay(ret) == [ret |-> ret, code_block |-> self.code_block,
                      last_text |-> self.last_text]
    IN  IF tok.kind = "Text" /\ ~self.code_block
        THEN [ret |-> Continue, code_block |-> self.code_block,
              last_text |-> <<tok.text>>]
        ELSE IF tok.kind = "EndLink"
        THEN IF tok.link_type \in UnknownTypes
             THEN stay(new_located_event(newlines,
                           ReferenceBroken(tok.target, tok.text), span_start))
             ELSE stay(LinkWithLastText(newlines, tok.target, self.last_text, span_start))
        ELSE IF tok.kind = "StartCodeBlock"
        THEN [ret |-> Continue, code_block |-> TRUE, last_text |-> self.last_text]
        ELSE IF tok.kind = "EndCodeBlock"
        THEN [ret |-> Continue, code_block |-> FALSE, last_text |-> self.last_text]
        ELSE stay(Continue)

\* a match that takes a task list marker for a reference without a definition
MatchEvent_TaskAsReference(self, newlines, tok, span_start) ==
    LET stay(ret) == [ret |-> ret, code_block |-> self.code_block,
                      last_text |-> self.last_text]
    IN  IF tok.kind = "Text" /\ ~self.code_block
        THEN [ret |-> Continue, code_block |-> self.code_block,
              last_text |-> <<tok.text>>]
        ELSE IF tok.kind = "EndLink"
        THEN IF tok.link_type \in ResolvedTypes
             THEN stay(LinkWithLastText(newlines, tok.target, self.last_text, span_start))
             ELSE IF tok.link_type \in UnknownTypes
             THEN stay(new_located_event(newlines,
                           ReferenceBroken(tok.target, tok.text), span_start))
             ELSE stay(Continue)
        ELSE IF tok.kind = "TaskListMarker"
        THEN stay(new_located_event(newlines, ReferenceBroken(<<>>, <<" ">>), span_start))
        ELSE IF tok.kind = "StartCodeBlock"
        THEN [ret |-> Continue, code_block |-> TRUE, last_text |-> self.last_text]
        ELSE IF tok.kind = "EndCodeBlock"
        THEN [ret |-> Continue, code_block |-> FALSE, last_text |-> self.last_text]
        ELSE stay(Continue)

\* the match of Document::next on one event of the tokenizer:
\* [ret, code_block, last_text]
MatchEvent(self, newlines, tok, span_start) ==
    LET stay(ret) == [ret |-> ret, code_block |-> self.code_block,
                      last_text |-> self.last_text]
    IN  IF tok.kind = "Text" /\ ~self.code_block
        THEN [ret |-> Continue, code_block |-> self.code_block,
              last_text |-> <<tok.text>>]
        ELSE IF tok.kind = "EndLink"
        THEN IF tok.link_type \in ResolvedTypes
             THEN stay(LinkWithLastText(newlines, tok.target, self.last_text, span_start))
             ELSE IF tok.link_type \in UnknownTypes
             THEN stay(new_located_event(newlines,
                           ReferenceBroken(tok.target, tok.text), span_start))
             ELSE stay(Continue)
        ELSE IF tok.kind = "StartCodeBlock"
        THEN [ret |-> Continue, code_block |-> TRUE, last_text |-> self.last_text]
        ELSE IF tok.kind = "EndCodeBlock"
        THEN [ret |-> Continue, code_block |-> FALSE, last_text |-> self.last_text]
        ELSE stay(Continue)

\* fn next of Document: the while loop over self.parser.next(): [ret, self]
RECURSIVE Document_next(_, _)
Document_next(self, src) ==
    IF self.pos >= Len(src.tokens)
    THEN [ret |-> None, self |-> self]
    ELSE LET m == MatchEvent(self, src.newlines, src.tokens[self.pos + 1],
                             SpanStart(self.pos + 1))
             after == [pos |-> self.pos + 1, code_block |-> m.code_block,
                       last_text |-> m.last_text]
         IN  IF m.ret = Continue THEN Document_next(after, src)
             ELSE [ret |-> m.ret, self |-> after]

\* the state of main() while a Document is used on its own
MainIdle ==
    /\ pc = "walk"
    /\ exit_code = <<>>
    /\ skip_http = FALSE
    /\ walked = {}
    /\ emitted = 0
    /\ entry = NoEntry
    /\ parser = NoParser
    /\ state = NoState
    /\ links = << >>
    /\ found_issue = FALSE
    /\ stdout = <<>>
    /\ requests = <<>>
    /\ processed = <<>>
    /\ budget = MaxEvents

\* Document::new(contents) on one of the texts
DocInit ==
    /\ MainIdle
    /\ source \in Sources
    /\ document = Document_new
    /\ returned = <<>>

\* the caller has not been stopped by a panic
Running ==
    IF returned = <<>> THEN TRUE ELSE returned[Len(returned)].ret.kind # "Panic"

\* one call of doc.next(); the caller may go on calling after None
CallNext ==
    /\ Running
    /\ Len(returned) < Len(source.tokens) + 2
    /\ LET r == Document_next(document, source)
       IN  /\ document' = r.self
           /\ returned' = Append(returned,
                  [ret |-> r.ret, from |-> document.pos, upto |-> r.self.pos])
    /\ UNCHANGED <<pc, exit_code, skip_http, walked, emitted, entry, parser, state,
                   links, found_issue, stdout, requests, processed, budget, source>>

DocSpec == DocInit /\ [][CallNext]_vars

----------------------------------------------------------------------------
(* Properties of the URL check.                                            *)

\* the url with its fragment cleared (the canonical URL of the specification)
Canonical(url) == [url EXCEPT !.fragment = <<>>]

\* the url of the k-th handled link
UrlOf(k) == UrlParse(processed[k].dest).url

\* the handled links that went to check_url with an http(s) url
HttpChecks ==
    { k \in DOMAIN processed :
        /\ processed[k].route = "check_url"
        /\ UrlOf(k).scheme \in SpecialSchemes }

\* the HEAD requests of the run sent for a url of the given set
HeadsFor(urls) ==
    { n \in DOMAIN requests : requests[n].method = "HEAD" /\ requests[n].url \in urls }
GetsFor(urls) ==
    { n \in DOMAIN requests : requests[n].method = "GET" /\ requests[n].url \in urls }

\* the k-th handled link has a line in the report
Reported(k) ==
    \E n \in DOMAIN stdout :
        /\ stdout[n].file = processed[k].file
        /\ stdout[n].dest = processed[k].dest
        /\ stdout[n].line = LineOf(processed[k].newlines, processed[k].offset)
        /\ stdout[n].title \in {"Found broken url", "HTTP failure"}

\* C1: two links whose http(s) urls differ only in the fragment cause exactly
\* one network check (one HEAD) between them, and if that check fails both
\* links are in the report.
C1_FragmentInsensitiveDedup ==
    \A i, j \in HttpChecks :
        (i < j /\ UrlOf(i) # UrlOf(j) /\ Canonical(UrlOf(i)) = Canonical(UrlOf(j)))
        => /\ Cardinality(HeadsFor({UrlOf(i), UrlOf(j)})) = 1
           /\ (processed[i].result # Ok => Reported(i) /\ Reported(j))

\* C2: each distinct url causes at most one round trip in a run: at most one
\* HEAD and at most one GET, whatever the first check ended in.
C2_AtMostOnce ==
    \A u \in Urls :
        /\ Cardinality(HeadsFor({u})) <= 1
        /\ Cardinality(GetsFor({u})) <= 1

\* C3: all links of a run with the same url get the same outcome: all are
\* reported with the same HttpStatus, all with HttpError, or none is reported.
C3_OutcomeBroadcast ==
    \A i, j \in HttpChecks :
        UrlOf(i) = UrlOf(j) => processed[i].result = processed[j].result

\* the result a final response stands for
OutcomeOf(resp, result) ==
    IF ~resp.ok THEN result.kind = "HttpError"
    ELSE IF resp.status = StatusOk THEN result.kind = "Ok"
    ELSE result.kind = "HttpStatus" /\ result.status = resp.status

\* C4: a check sends a HEAD first; it sends a GET if and only if the HEAD was
\* answered 405, once and right after the HEAD; the outcome is the GET's answer
\* then and the HEAD's answer otherwise.  Every request of the run belongs to
\* such a check.
C4_HeadThenGet ==
    /\ \A k \in DOMAIN processed :
          LET sent == processed[k].sent
          IN  sent # <<>> =>
                /\ sent[1].method = "HEAD"
                /\ Len(sent) <= 2
                /\ Len(sent) = 2 <=>
                      (sent[1].resp.ok /\ sent[1].resp.status = MethodNotAllowed)
                /\ Len(sent) = 2 => sent[2].method = "GET" /\ sent[2].url = sent[1].url
                /\ OutcomeOf(sent[Len(sent)].resp, processed[k].result)
    /\ \A n \in DOMAIN requests :
          /\ requests[n].method = "GET" =>
                /\ n > 1
                /\ requests[n - 1].method = "HEAD"
                /\ requests[n - 1].url = requests[n].url
                /\ requests[n - 1].resp = [ok |-> TRUE, status |-> MethodNotAllowed]
          /\ (requests[n].method = "HEAD"
                /\ requests[n].resp = [ok |-> TRUE, status |-> MethodNotAllowed]) =>
                /\ n < Len(requests)
                /\ requests[n + 1].method = "GET"

\* a HEAD answered 405, then a GET answered 404: the link is reported with 404
C4_Witness ==
    \E k \in DOMAIN processed :
        /\ Len(processed[k].sent) = 2
        /\ processed[k].sent[2].resp = [ok |-> TRUE, status |-> 404]
        /\ processed[k].result = HttpStatus(404)
        /\ \E j \in DOMAIN processed :
              /\ Len(processed[j].sent) = 1
              /\ ~processed[j].sent[1].resp.ok
              /\ processed[j].result = HttpError

----------------------------------------------------------------------------
(* Properties of the run as a whole.                                       *)

FatalKinds == {"walk_err", "open_err", "read_err"}

\* C5: absent a fatal failure the process exits with 1 if and only if a
\* validation error was reported and with 0 otherwise; found_issue is set
\* exactly when a line was printed and is never cleared.
C5_ExitSignal ==
    [][ /\ found_issue => found_issue'
        /\ found_issue' <=> stdout' # <<>>
        /\ (pc' = "exited" /\ exit_code' # <<ExitFatal>>) =>
               exit_code' = IF stdout' # <<>> THEN <<ExitIssue>> ELSE <<ExitClean>>
      ]_vars

\* a run that reported a malformed URL and then ended with exit code 1
C5_Witness ==
    /\ pc = "exited"
    /\ exit_code = <<ExitIssue>>
    /\ \E n \in DOMAIN stdout : stdout[n].title = "Found malformed URL"

\* C6: a failing directory walk, open or read ends the process in that very
\* step with exit code 2, whether or not issues were found before; exit code
\* 2 has no other cause; nothing is scanned, checked or printed afterwards.
C6_FatalAbort ==
    [][ /\ (entry'.kind \in FatalKinds) =>
              /\ pc' = "exited"
              /\ exit_code' = <<ExitFatal>>
        /\ (entry'.kind \in FatalKinds /\ entry.kind \notin FatalKinds) =>
              UNCHANGED <<emitted, links, found_issue, stdout, requests, processed>>
        /\ exit_code' = <<ExitFatal>> => entry'.kind \in FatalKinds
        /\ pc = "exited" => UNCHANGED vars
      ]_vars

\* a file that cannot be read, met after an issue had been reported
C6_Witness ==
    /\ entry.kind = "read_err"
    /\ found_issue
    /\ stdout # <<>>
    /\ exit_code = <<ExitFatal>>

\* the handled links that failed, in order
Failing == SelectSeq(processed, LAMBDA o : o.result # Ok)
\* the lines of the report that are about links, in order
LinkLines == SelectSeq(stdout, LAMBDA l : l.title # "Found broken reference")

\* 1 + the number of newline positions below the offset
LineAt(newlines, offset) ==
    1 + Cardinality({ n \in DOMAIN newlines : newlines[n] < offset })

\* every failing link has its own line in the report, and the report has no
\* other line about a link
ReportedOnce ==
    /\ Len(LinkLines) = Len(Failing)
    /\ \A n \in DOMAIN Failing :
          /\ LinkLines[n].file = Failing[n].file
          /\ LinkLines[n].line = LineAt(Failing[n].newlines, Failing[n].offset)
          /\ LinkLines[n].dest = Failing[n].dest
          /\ LinkLines[n].title = Title(Failing[n].result.kind)

\* C7: a validation error does not end the run: the process exits only at a
\* fatal failure or at the end of the walk, every document that was opened is
\* scanned to its last event before the walk goes on, the run comes to its
\* end, and every failing link is reported exactly once with its file and line.
C7_NonFatal ==
    /\ [](pc = "walk" => parser.pos = parser.len)
    /\ [](pc = "exited" => (parser.pos = parser.len \/ exit_code = <<ExitFatal>>))
    /\ []ReportedOnce
    /\ <>(pc = "exited")

\* a run that reported two failing links of two kinds and then ended normally
C7_Witness ==
    /\ pc = "exited"
    /\ exit_code = <<ExitIssue>>
    /\ Len(Failing) = 2
    /\ Failing[1].result.kind # Failing[2].result.kind
    /\ Failing[2].result.kind = "HttpError"

----------------------------------------------------------------------------
(* Properties of the classification and of the path check.                 *)

\* the pieces of a target before its first '#'
Stripped(dest) ==
    LET hashes == { n \in DOMAIN dest : dest[n] = "#" }
        cut == IF hashes = {} THEN Len(dest) + 1
               ELSE CHOOSE n \in hashes : \A m \in hashes : n <= m
    IN  SubSeq(dest, 1, cut - 1)

\* the handled links that went to check_path
PathChecks == { k \in DOMAIN processed : processed[k].route = "check_path" }

\* what the specification says of an absolute path under the allow-absolute flag
AbsoluteOutcome(allow_absolute, dest) ==
    IF ~allow_absolute THEN PathAbsolute
    ELSE IF Join(Root, Stripped(dest)) \in Exists THEN Ok
    ELSE PathNonExistant

\* C8: an absolute path fails with PathAbsolute when the allow-absolute flag
\* is not set; when it is set the path is looked up under the root and the
\* result is success if the file exists there and PathNonExistent if not.
C8_AbsolutePath ==
    \A k \in PathChecks :
        IsAbsolute(Stripped(processed[k].dest)) =>
            \A allow_absolute \in BOOLEAN :
                processed[k].result = AbsoluteOutcome(allow_absolute, processed[k].dest)

\* C9: a relative target is cut at its first '#', resolved against the parent
\* directory of the document that holds the link, and fails with
\* PathNonExistent exactly when the resolved path does not exist; targets that
\* differ only in the fragment get the same result in the same document.
C9_RelativePath ==
    /\ \A k \in PathChecks :
          LET o == processed[k]
              resolved == SubSeq(o.file, 1, Len(o.file) - 1) \o Components(Stripped(o.dest))
          IN  ~IsAbsolute(Stripped(o.dest)) =>
                /\ o.result \in {Ok, PathNonExistant}
                /\ o.result = PathNonExistant <=> resolved \notin Exists
    /\ \A i, j \in PathChecks :
          (processed[i].file = processed[j].file
              /\ Stripped(processed[i].dest) = Stripped(processed[j].dest))
          => processed[i].result = processed[j].result

\* the same target with a fragment is found from docs/a.md and is missing
\* from docs/sub/b.md
C9_Witness ==
    \E i, j \in PathChecks :
        /\ processed[i].dest = <<"a.md", "#", "s">>
        /\ processed[j].dest = <<"a.md", "#", "s">>
        /\ processed[i].file = <<"docs", "a.md">>
        /\ processed[j].file = <<"docs", "sub", "b.md">>
        /\ processed[i].result = Ok
        /\ processed[j].result = PathNonExistant

\* C10: an absolute URL goes to the URL check (to nothing when skip_http is
\* set), a target without a scheme goes to the path check, and a target that
\* fails to parse for another reason gives UrlMalformed with that parse error
\* and goes to neither check, whatever skip_http is.
C10_Classification ==
    \A k \in DOMAIN processed :
        LET o == processed[k]
            parsed == UrlParse(o.dest)
        IN  /\ parsed.ok =>
                  /\ o.route = IF skip_http THEN "skip" ELSE "check_url"
                  /\ o.result.kind \in {"Ok", "HttpStatus", "HttpError"}
                  /\ skip_http => o.result = Ok /\ o.sent = <<>>
            /\ (~parsed.ok /\ parsed.err = "RelativeUrlWithoutBase") =>
                  /\ o.route = "check_path"
                  /\ o.result.kind \in {"Ok", "PathAbsolute", "PathNonExistant"}
                  /\ o.sent = <<>>
            /\ (~parsed.ok /\ parsed.err # "RelativeUrlWithoutBase") =>
                  /\ o.route = "malformed"
                  /\ o.result = UrlMalformed(parsed.err)
                  /\ o.sent = <<>>

\* with skip_http set: a malformed target is reported and a relative one is
\* checked as a path
C10_Witness ==
    /\ skip_http
    /\ \E i, j \in DOMAIN processed :
          /\ processed[i].route = "malformed"
          /\ processed[i].result = UrlMalformed("EmptyHost")
          /\ processed[j].route = "check_path"

----------------------------------------------------------------------------
(* Properties of the requests and of the cache.                            *)

\* the step handles a link: the link it handles
Handled == processed'[Len(processed')]

\* C11: a request is sent only for a target that parses as an absolute URL
\* with scheme http or https while skip_http is false; an absolute URL met
\* with skip_http set, or with another scheme, is accepted: no error, no
\* request, and the cache is left as it was.
C11_NoOtherRequests ==
    [][ Len(processed') = Len(processed) + 1 =>
          LET parsed == UrlParse(Handled.dest)
              checked == /\ parsed.ok
                         /\ parsed.url.scheme \in {"http", "https"}
                         /\ ~skip_http
          IN  /\ requests' # requests => checked
              /\ Handled.sent # <<>> => checked
              /\ (parsed.ok /\ ~checked) =>
                    /\ Handled.result = Ok
                    /\ Handled.sent = <<>>
                    /\ requests' = requests
                    /\ links' = links
                    /\ stdout' = stdout
      ]_vars

\* a mailto: link is accepted while HTTP checks are on and the cache holds a status
C11_Witness ==
    /\ ~skip_http
    /\ links # << >>
    /\ \E k \in DOMAIN processed :
          /\ processed[k].dest = <<"mailto", ":", "m">>
          /\ processed[k].route = "check_url"
          /\ processed[k].result = Ok
          /\ k > 1

\* C18: a status stored in links stays there unchanged for the rest of the
\* run; a later check of that very url sends no request and gives the outcome
\* of the stored status; links holds only http(s) urls, each with a status
\* that a response of the run carried.
C18_CacheStable ==
    [][ /\ \A u \in DOMAIN links : u \in DOMAIN links' /\ links'[u] = links[u]
        /\ \A u \in DOMAIN links' :
              /\ u.scheme \in {"http", "https"}
              /\ \E n \in DOMAIN requests' :
                    /\ requests'[n].url = u
                    /\ requests'[n].resp = [ok |-> TRUE, status |-> links'[u]]
        /\ (Len(processed') = Len(processed) + 1 /\ Handled.route = "check_url") =>
              LET u == UrlParse(Handled.dest).url
              IN  u \in DOMAIN links =>
                    /\ Handled.sent = <<>>
                    /\ requests' = requests
                    /\ Handled.result =
                          IF links[u] = StatusOk THEN Ok ELSE HttpStatus(links[u])
      ]_vars

\* a second link to a url whose check was answered 404 is reported from the cache
C18_Witness ==
    \E i, j \in DOMAIN processed :
        /\ i < j
        /\ processed[i].dest = processed[j].dest
        /\ processed[i].sent # <<>>
        /\ processed[j].sent = <<>>
        /\ processed[j].result = HttpStatus(404)
        /\ UrlParse(processed[j].dest).url \in DOMAIN links

\* C17: the code flag is true exactly between the start and the end of a code
\* region of the current document, false when a document is opened, and no
\* step taken while the flag is true prints a report.
C17_CodeSuppression ==
    [][ /\ pc' = "scan" => state'.code_block = parser'.in_code
        /\ (pc = "walk" /\ pc' = "scan") => ~state'.code_block
        /\ (pc = "scan" /\ state.code_block) => stdout' = stdout ]_vars

\* a text of the form of a reference was seen in a code region, nothing printed
C17_Witness ==
    /\ pc = "scan"
    /\ parser.in_code
    /\ state.code_block
    /\ state.last_text = <<"[", "r", "]">>
    /\ stdout = <<>>

----------------------------------------------------------------------------
(* Properties of the scanner (Document).                                   *)

\* the calls of next() made so far, and the tokenizer event a call stopped at
Calls == DOMAIN returned
StoppedAt(c) == source.tokens[returned[c].upto]
\* the calls that stopped at the n-th event of the tokenizer
StoppedAtEvent(n) == { c \in Calls : returned[c].from < n /\ returned[c].upto = n }
\* the call returned an event
IsEvent(c) == returned[c].ret.kind \in {"Link", "ReferenceBroken"}
\* the events of the tokenizer that the scanner has taken so far
Taken == 1..document.pos

\* C12: a link construct whose label has no definition, once the scanner
\* reaches it, gives exactly one ReferenceBroken event with an empty target,
\* the label as text and the line of the construct; the call does not panic;
\* no other event of the tokenizer gives a ReferenceBroken.
C12_UnresolvedReference ==
    /\ \A n \in Taken :
          (source.tokens[n].kind = "EndLink" /\ source.tokens[n].link_type \in UnknownTypes)
          => /\ Cardinality(StoppedAtEvent(n)) = 1
             /\ \A c \in StoppedAtEvent(n) :
                      /\ returned[c].ret.kind = "ReferenceBroken"
                      /\ returned[c].ret.target = <<>>
                      /\ returned[c].ret.text = DocLabel
                      /\ returned[c].ret.line = LineAt(source.newlines, SpanStart(n))
    /\ \A c \in Calls :
          returned[c].ret.kind = "ReferenceBroken" =>
             /\ StoppedAt(c).kind = "EndLink"
             /\ StoppedAt(c).link_type \in UnknownTypes

\* a shortcut reference without a definition, met on line 2 before any text
C12_Witness ==
    /\ document.last_text = <<>>
    /\ \E c \in Calls :
          /\ returned[c].ret.kind = "ReferenceBroken"
          /\ returned[c].ret.line = 2
          /\ StoppedAt(c).link_type = "ShortcutUnknown"

\* the text holds task list items only: markers and their text
TaskListOnly ==
    /\ \A n \in DOMAIN source.tokens : source.tokens[n].kind \in {"TaskListMarker", "Text"}
    /\ \E n \in DOMAIN source.tokens : source.tokens[n].kind = "TaskListMarker"

\* C13: a document of task list items only gives no event: every call of
\* next() returns None.
C13_TaskListSilent ==
    TaskListOnly => \A c \in Calls : returned[c].ret = None

\* two task list items were scanned to the end
C13_Witness ==
    /\ TaskListOnly
    /\ Len(source.tokens) = 3
    /\ source.tokens[1].kind = "TaskListMarker"
    /\ source.tokens[3].kind = "TaskListMarker"
    /\ returned # <<>>
    /\ document.pos = 3

\* C14: the scanner gives finitely many events and then None: every call
\* returns an event or None, a call that returns an event has taken at least
\* one event of the tokenizer, after None every call returns None, and an
\* empty document gives None at the first call.
C14_Exhaustion ==
    /\ \A c \in Calls :
          /\ returned[c].ret.kind \in {"Link", "ReferenceBroken", "None"}
          /\ IsEvent(c) => returned[c].from < returned[c].upto
          /\ returned[c].ret = None => returned[c].upto = Len(source.tokens)
    /\ \A c, d \in Calls : (c < d /\ returned[c].ret = None) => returned[d].ret = None
    /\ (source.tokens = <<>> /\ returned # <<>>) => returned[1].ret = None

\* C15: the line of an event is one plus the number of newline positions
\* below the start of its construct, and the lines of successive events of a
\* document never decrease.
C15_LineAttribution ==
    /\ \A c \in Calls :
          IsEvent(c) =>
             returned[c].ret.line = LineAt(source.newlines, SpanStart(returned[c].upto))
    /\ \A c, d \in Calls :
          (c < d /\ IsEvent(c) /\ IsEvent(d)) => returned[c].ret.line <= returned[d].ret.line

\* two events of one document, on line 1 and on line 3
C15_Witness ==
    \E c, d \in Calls :
        /\ c < d
        /\ IsEvent(c)
        /\ IsEvent(d)
        /\ returned[c].ret.line = 1
        /\ returned[d].ret.line = 3

\* the n-th event of the tokenizer lies in a code block
InCodeBlock(n) ==
    Cardinality({ m \in 1..(n - 1) : source.tokens[m].kind = "StartCodeBlock" })
        > Cardinality({ m \in 1..(n - 1) : source.tokens[m].kind = "EndCodeBlock" })
\* the text tokens outside code before the n-th event of the tokenizer
TextsBefore(n) ==
    { m \in 1..(n - 1) : source.tokens[m].kind = "Text" /\ ~InCodeBlock(m) }
\* the most recent of them
LastTextBefore(n) ==
    source.tokens[CHOOSE m \in TextsBefore(n) : \A k \in TextsBefore(n) : k <= m].text

\* the n-th event of the tokenizer ends a link of one of the given kinds
EndsLink(n, types) ==
    source.tokens[n].kind = "EndLink" /\ source.tokens[n].link_type \in types

\* C16: every link construct with a destination that the scanner reaches
\* gives exactly one Link event, with the destination as target and the most
\* recent text token outside code as text; no other construct gives a Link.
C16_LinkEmission ==
    /\ \A n \in Taken :
          EndsLink(n, ResolvedTypes) =>
             /\ Cardinality(StoppedAtEvent(n)) = 1
             /\ \A c \in StoppedAtEvent(n) :
                   /\ returned[c].ret.kind = "Link"
                   /\ returned[c].ret.target = source.tokens[n].target
                   /\ TextsBefore(n) # {} => returned[c].ret.text = LastTextBefore(n)
    /\ \A c \in Calls :
          returned[c].ret.kind = "Link" => EndsLink(returned[c].upto, ResolvedTypes)

\* C19: every call of next() returns an event or None, also at a link with a
\* destination that closes before any text token outside code was seen.
C19_NeverPanics ==
    \A c \in Calls :
        /\ returned[c].ret.kind # "Panic"
        /\ (returned[c].from < returned[c].upto
              /\ EndsLink(returned[c].upto, ResolvedTypes)
              /\ TextsBefore(returned[c].upto) = {})
           => returned[c].ret.kind = "Link"

\* C20: an autolink or e-mail autolink gives no event and changes neither the
\* code flag nor the last text: no call returns an event at one, and the flag
\* and the last text are those of the code blocks and text tokens taken.
C20_OtherLinksSilent ==
    /\ \A c \in Calls : IsEvent(c) => ~EndsLink(returned[c].upto, OtherTypes)
    /\ \A n \in Taken :
          EndsLink(n, OtherTypes) => \A c \in StoppedAtEvent(n) : returned[c].ret = None
    /\ document.code_block = InCodeBlock(document.pos + 1)
    /\ document.last_text =
          IF TextsBefore(document.pos + 1) = {} THEN <<>>
          ELSE << LastTextBefore(document.pos + 1) >>

\* an autolink between a text and an inline link: the link carries the text
C20_Witness ==
    /\ Len(source.tokens) = 3
    /\ source.tokens[1] = TextEvent(<<"t">>)
    /\ EndsLink(2, {"Autolink"})
    /\ EndsLink(3, {"Inline"})
    /\ returned # <<>>
    /\ returned[1].ret.kind = "Link"
    /\ returned[1].ret.text = <<"t">>
    /\ returned[1].upto = 3

====
